---- MODULE Spec2Model ----
(***************************************************************************)
(* A model of the assistant bot of exercise_1.py: the validated fields     *)
(* (Phone, Birthday), the Record, the AddressBook, the command handlers    *)
(* wrapped by input_error, parse_input and the read loop of main with its  *)
(* load at start and save at close/exit.                                   *)
(*                                                                         *)
(* A text (a Python str) is a sequence of characters; a character is a     *)
(* one-character string, except that the Arabic-Indic digits U+0660..      *)
(* U+0669 are written "u0660" .. "u0669".                                  *)
(***************************************************************************)
EXTENDS Integers, Sequences, FiniteSets, TLC

VARIABLES
    status,      \* "stopped" | "running" | "closed" | "crashed" | "killed"
    data,        \* AddressBook.data of the running process: a dict in insertion order
    file,        \* addressbook.pkl: NoFile or the pickled book
    pc,          \* where main is: "input" (about to read a line) or "dispatch"
    user_input,  \* main's user_input: the line last read, stripped
    command,     \* main's command
    args,        \* main's args
    out,         \* what main printed last
    today,       \* the value datetime.today() returned to the last birthdays command
    upcoming,    \* what get_upcoming_birthdays returned to the last birthdays command
    saves,       \* history: calls of save_data made by the current session
    closedBook   \* history: [book |-> the book at the last close/exit]; NeverClosed before

vars ==
    <<status, data, file, pc, user_input, command, args, out, today, upcoming,
      saves, closedBook>>

\* Python's None
None == [none |-> TRUE]

\* No file addressbook.pkl
NoFile == [nofile |-> TRUE]

\* No session has ended through close or exit yet
NeverClosed == [never |-> TRUE]

-----------------------------------------------------------------------------
(* Characters and texts *)

AsciiDigits == <<"0", "1", "2", "3", "4", "5", "6", "7", "8", "9">>

ArabicIndicDigits ==
    <<"u0660", "u0661", "u0662", "u0663", "u0664",
      "u0665", "u0666", "u0667", "u0668", "u0669">>

Range(s) == {s[i] : i \in 1..Len(s)}

IsAsciiDigit(c) == c \in Range(AsciiDigits)

\* \d of a str pattern: any Unicode decimal digit (category Nd).
IsDecimalDigit(c) == c \in Range(AsciiDigits) \cup Range(ArabicIndicDigits)

\* int() of one decimal digit
DigitValue(c) ==
    CHOOSE v \in 0..9 : AsciiDigits[v + 1] = c \/ ArabicIndicDigits[v + 1] = c

\* str.isspace for the characters of the model
IsSpace(c) == c = " "

\* sep.join(parts)
RECURSIVE Join(_, _)
Join(sep, parts) ==
    IF parts = <<>> THEN <<>>
    ELSE IF Len(parts) = 1 THEN parts[1]
    ELSE parts[1] \o sep \o Join(sep, Tail(parts))

-----------------------------------------------------------------------------
(* Results of calls: a value returned or an exception raised *)

Raise(exc, msg) == [raised |-> TRUE, exc |-> exc, msg |-> msg]

\* A printed or returned message: the format text and the values put into it.
Msg(fmt, values) == [fmt |-> fmt, args |-> values]

InvalidPhoneMsg == Msg("Phone number must be 10 digits.", <<>>)
InvalidDateMsg == Msg("Invalid date format. Use DD.MM.YYYY", <<>>)
OldPhoneNotFoundMsg == Msg("Old phone number not found.", <<>>)
DayOutOfRangeMsg == Msg("day is out of range for month", <<>>)
TooManyValuesMsg == Msg("too many values to unpack (expected 2)", <<>>)

-----------------------------------------------------------------------------
(* class Phone *)

PhoneDigits == 10

\* re.fullmatch(r'\d{10}', value)
FullMatchPhone(value) ==
    /\ Len(value) = PhoneDigits
    /\ \A i \in 1..Len(value) : IsDecimalDigit(value[i])

\* Phone(value): the field's value, or ValueError
Phone(value) ==
    IF ~FullMatchPhone(value)
    THEN Raise("ValueError", InvalidPhoneMsg)
    ELSE [raised |-> FALSE, value |-> value]

-----------------------------------------------------------------------------
(* class Birthday: datetime.strptime(value, "%d.%m.%Y") and strftime *)

IsLeapYear(y) == (y % 4 = 0) /\ ((y % 100 # 0) \/ (y % 400 = 0))

DaysInMonth(y, m) ==
    IF m = 2 THEN (IF IsLeapYear(y) THEN 29 ELSE 28)
    ELSE IF m \in {4, 6, 9, 11} THEN 30 ELSE 31

\* The lengths the directive %d can take at position i of t, in the order its
\* pattern 3[0-1]|[1-2]\d|0[1-9]|[1-9]| [1-9] tries them.
DayLens(t, i) ==
    LET has2 == i + 1 <= Len(t)
        nonzero2 == has2 /\ IsAsciiDigit(t[i + 1]) /\ t[i + 1] # "0"
        two == /\ has2
               /\ \/ t[i] = "3" /\ t[i + 1] \in {"0", "1"}
                  \/ t[i] \in {"1", "2"} /\ IsDecimalDigit(t[i + 1])
                  \/ t[i] = "0" /\ nonzero2
        one == i <= Len(t) /\ IsAsciiDigit(t[i]) /\ t[i] # "0"
        spaced == has2 /\ t[i] = " " /\ nonzero2
    IN  (IF two THEN <<2>> ELSE <<>>)
        \o (IF one THEN <<1>> ELSE <<>>)
        \o (IF spaced THEN <<2>> ELSE <<>>)

\* The same for %m: 1[0-2]|0[1-9]|[1-9]
MonthLens(t, i) ==
    LET two == /\ i + 1 <= Len(t)
               /\ \/ t[i] = "1" /\ t[i + 1] \in {"0", "1", "2"}
                  \/ t[i] = "0" /\ IsAsciiDigit(t[i + 1]) /\ t[i + 1] # "0"
        one == i <= Len(t) /\ IsAsciiDigit(t[i]) /\ t[i] # "0"
    IN  (IF two THEN <<2>> ELSE <<>>) \o (IF one THEN <<1>> ELSE <<>>)

\* int() of the digits t[i .. i+n-1]
RECURSIVE IntOf(_, _, _)
IntOf(t, i, n) ==
    IF n = 0 THEN 0 ELSE IntOf(t, i, n - 1) * 10 + DigitValue(t[i + n - 1])

YearDigits == 4

\* The first way, in the pattern's order, to match %d.%m.%Y at the start of t:
\* <<day length, month length>>, or <<>> when there is none.
RECURSIVE FirstMatch(_, _)
FirstMatch(t, ways) ==
    IF ways = <<>> THEN <<>>
    ELSE LET ld == Head(ways)[1]
             lm == Head(ways)[2]
             y0 == 1 + ld + 1 + lm + 1
             fits == /\ 1 + ld <= Len(t) /\ t[1 + ld] = "."
                     /\ ld + 1 + lm + 1 <= Len(t) /\ t[ld + 1 + lm + 1] = "."
                     /\ y0 + YearDigits - 1 <= Len(t)
                     /\ \A k \in 0..(YearDigits - 1) : IsDecimalDigit(t[y0 + k])
         IN  IF fits THEN Head(ways) ELSE FirstMatch(t, Tail(ways))

RECURSIVE Ways(_, _, _)
Ways(t, dls, k) ==
    IF k > Len(dls) THEN <<>>
    ELSE LET mls == MonthLens(t, 1 + dls[k] + 1)
         IN  [j \in 1..Len(mls) |-> <<dls[k], mls[j]>>] \o Ways(t, dls, k + 1)

\* datetime(y, m, d): ValueError when the month has no such day or the year is 0
MakeDate(y, m, d) ==
    IF y < 1 \/ d > DaysInMonth(y, m)
    THEN Raise("ValueError", DayOutOfRangeMsg)
    ELSE [raised |-> FALSE, value |-> [year |-> y, month |-> m, day |-> d, sec |-> 0]]

\* What strptime makes of value once the format matched at its start, the day
\* taking ld characters and the month lm
Converted(value, ld, lm) ==
    IF Len(value) # ld + lm + 2 + YearDigits
    THEN Raise("ValueError", Msg("unconverted data remains", <<>>))
    ELSE MakeDate(IntOf(value, ld + lm + 3, YearDigits),
                  IntOf(value, ld + 2, lm),
                  IF value[1] = " " THEN IntOf(value, 2, ld - 1) ELSE IntOf(value, 1, ld))

Matched(value, w) ==
    IF w = <<>> THEN Raise("ValueError", Msg("does not match format", <<>>))
    ELSE Converted(value, w[1], w[2])

\* datetime.strptime(value, "%d.%m.%Y"): a datetime at midnight, or ValueError
Strptime(value) == Matched(value, FirstMatch(value, Ways(value, DayLens(value, 1), 1)))

\* except ValueError: raise ValueError("Invalid date format. Use DD.MM.YYYY")
Reraised(r) == IF r.raised THEN Raise("ValueError", InvalidDateMsg) ELSE r

\* Birthday(value): the field's value, a datetime, or ValueError
Birthday(value) == Reraised(Strptime(value))

\* n written with at least w digits, zero padded
RECURSIVE Pad(_, _)
Pad(n, w) ==
    IF w <= 1 /\ n < 10 THEN <<AsciiDigits[n + 1]>>
    ELSE Pad(n \div 10, w - 1) \o <<AsciiDigits[(n % 10) + 1]>>

\* dt.strftime("%d.%m.%Y")
Strftime(dt) == Pad(dt.day, 2) \o <<".">> \o Pad(dt.month, 2) \o <<".">> \o Pad(dt.year, 4)

-----------------------------------------------------------------------------
(* class Record *)

\* Record(name)
NewRecord(name) == [name |-> name, phones |-> <<>>, birthday |-> None]

\* record.add_phone(phone_number)
add_phone(record, phone_number) ==
    LET phone == Phone(phone_number)
    IN  IF phone.raised THEN phone @@ [record |-> record]
        ELSE [raised |-> FALSE,
              record |-> [record EXCEPT !.phones = Append(@, phone.value)]]

\* record.remove_phone(phone_number)
remove_phone(record, phone_number) ==
    [record EXCEPT !.phones = SelectSeq(@, LAMBDA p : p # phone_number)]

\* The least index of value in phones, 0 when there is none.
FirstIndex(phones, value) ==
    IF \E i \in 1..Len(phones) : phones[i] = value
    THEN CHOOSE i \in 1..Len(phones) :
            /\ phones[i] = value
            /\ \A j \in 1..(i - 1) : phones[j] # value
    ELSE 0

\* edit_phone storing the new text before it is validated
edit_phone_unvalidated(record, old_phone, new_phone) ==
    IF FirstIndex(record.phones, old_phone) = 0
    THEN Raise("ValueError", OldPhoneNotFoundMsg) @@ [record |-> record]
    ELSE IF Phone(new_phone).raised
    THEN Phone(new_phone)
         @@ [record |-> [record EXCEPT
                            !.phones[FirstIndex(record.phones, old_phone)] = new_phone]]
    ELSE [raised |-> FALSE,
          record |-> [record EXCEPT
                        !.phones[FirstIndex(record.phones, old_phone)] = new_phone]]

\* edit_phone without its return: every entry equal to old_phone is replaced
edit_phone_every(record, old_phone, new_phone) ==
    IF FirstIndex(record.phones, old_phone) = 0
    THEN Raise("ValueError", OldPhoneNotFoundMsg) @@ [record |-> record]
    ELSE IF Phone(new_phone).raised THEN Phone(new_phone) @@ [record |-> record]
    ELSE [raised |-> FALSE,
          record |-> [record EXCEPT
                        !.phones = [k \in 1..Len(@) |->
                                        IF @[k] = old_phone THEN new_phone ELSE @[k]]]]

\* record.edit_phone(old_phone, new_phone)
edit_phone(record, old_phone, new_phone) ==
    LET idx == FirstIndex(record.phones, old_phone)
    IN  IF idx = 0
        THEN Raise("ValueError", OldPhoneNotFoundMsg) @@ [record |-> record]
        ELSE LET phone == Phone(new_phone)
             IN  IF phone.raised THEN phone @@ [record |-> record]
                 ELSE [raised |-> FALSE,
                       record |-> [record EXCEPT !.phones[idx] = phone.value]]

\* record.find_phone(phone_number)
find_phone(record, phone_number) ==
    LET idx == FirstIndex(record.phones, phone_number)
    IN  IF idx = 0 THEN None ELSE record.phones[idx]

\* record.add_birthday(birthday)
add_birthday_to(record, birthday) ==
    LET b == Birthday(birthday)
    IN  IF b.raised THEN b @@ [record |-> record]
        ELSE [raised |-> FALSE, record |-> [record EXCEPT !.birthday = b.value]]

\* str(record)
RecordStr(record) ==
    Msg("Contact name: {name}, phones: {phones}, birthday: {birthday}",
        <<record.name,
          Join(<<";", " ">>, record.phones),
          IF record.birthday # None THEN Strftime(record.birthday)
          ELSE <<"N", "o", " ", "b", "i", "r", "t", "h", "d", "a", "y">> >>)

-----------------------------------------------------------------------------
(* class AddressBook: data is a dict, a sequence of entries in insertion order *)

EmptyBook == <<>>

KeyIndex(book, key) ==
    IF \E i \in 1..Len(book) : book[i].key = key
    THEN CHOOSE i \in 1..Len(book) : book[i].key = key
    ELSE 0

\* A store that never looks for the key
SetItem_append(book, key, record) == Append(book, [key |-> key, record |-> record])

\* book.data[key] = record
SetItem(book, key, record) ==
    LET i == KeyIndex(book, key)
    IN  IF i = 0 THEN Append(book, [key |-> key, record |-> record])
        ELSE [book EXCEPT ![i].record = record]

\* book.add_record(record)
add_record(book, record) == SetItem(book, record.name, record)

\* book.find(name)
find(book, name) ==
    LET i == KeyIndex(book, name)
    IN  IF i = 0 THEN None ELSE book[i].record

\* book.delete(name)
delete(book, name) == SelectSeq(book, LAMBDA e : e.key # name)

\* The book after a method has changed, in place, the record that find(name) gave.
Mutated(book, name, record) ==
    [i \in 1..Len(book) |->
        IF book[i].key = name THEN [book[i] EXCEPT !.record = record] ELSE book[i]]

\* book.get_upcoming_birthdays(days), with datetime.today() = now

\* a <= b on datetimes
DatetimeLE(a, b) ==
    LET x == <<a.year, a.month, a.day, a.sec>>
        y == <<b.year, b.month, b.day, b.sec>>
    IN  \/ x = y
        \/ \E k \in 1..4 : x[k] < y[k] /\ \A j \in 1..(k - 1) : x[j] = y[j]

\* dt + timedelta(days=n)
RECURSIVE AddDays(_, _)
AddDays(dt, n) ==
    IF n = 0 THEN dt
    ELSE AddDays(
            IF dt.day < DaysInMonth(dt.year, dt.month)
            THEN [dt EXCEPT !.day = @ + 1]
            ELSE IF dt.month < 12
            THEN [dt EXCEPT !.day = 1, !.month = @ + 1]
            ELSE [dt EXCEPT !.day = 1, !.month = 1, !.year = @ + 1],
            n - 1)

\* A replace that moves a day the month lacks to the month's last day
ReplaceYear_clamped(dt, year) ==
    [raised |-> FALSE,
     value |-> [dt EXCEPT !.year = year,
                          !.day = IF @ > DaysInMonth(year, dt.month)
                                  THEN DaysInMonth(year, dt.month) ELSE @]]

\* dt.replace(year=year)
ReplaceYear(dt, year) ==
    IF dt.day > DaysInMonth(year, dt.month)
    THEN Raise("ValueError", DayOutOfRangeMsg)
    ELSE [raised |-> FALSE, value |-> [dt EXCEPT !.year = year]]

DefaultDays == 7

RECURSIVE get_upcoming_birthdays(_, _, _)
get_upcoming_birthdays(book, days, now) ==
    IF book = <<>> THEN [raised |-> FALSE, value |-> <<>>]
    ELSE LET record == Head(book).record
             rest == get_upcoming_birthdays(Tail(book), days, now)
         IN  IF record.birthday = None THEN rest
             ELSE LET birthday == ReplaceYear(record.birthday, now.year)
                  IN  IF birthday.raised THEN birthday
                      ELSE IF rest.raised THEN rest
                      ELSE IF /\ DatetimeLE(now, birthday.value)
                              /\ DatetimeLE(birthday.value, AddDays(now, days))
                      THEN [rest EXCEPT !.value = <<record>> \o @]
                      ELSE rest

-----------------------------------------------------------------------------
(* The command handlers and input_error *)

Return(ret, book) == [raised |-> FALSE, ret |-> ret, data |-> book]

RaiseIn(exc, msg, book) == Raise(exc, msg) @@ [data |-> book]

ContactNotFoundMsg == Msg("Contact not found.", <<>>)
EnterArgumentMsg == Msg("Enter the argument for the command.", <<>>)

\* The decorator: what the wrapped call returns for the result r of the call
input_error(r) ==
    IF ~r.raised THEN r
    ELSE IF r.exc = "KeyError" THEN Return(ContactNotFoundMsg, r.data)
    ELSE IF r.exc = "ValueError" THEN Return(r.msg, r.data)
    ELSE IF r.exc = "IndexError" THEN Return(EnterArgumentMsg, r.data)
    ELSE r

UpdatedFmt == "Phone number for '{name}' updated from {old_phone} to {new_phone}."
BirthdayAddedFmt == "Birthday for '{name}' added: {birthday}."

ContactAddedMsg == Msg("Contact added.", <<>>)
ContactUpdatedMsg == Msg("Contact updated.", <<>>)

add_contact(argv, book) ==
    input_error(
        IF Len(argv) < 2 THEN Return(Msg("Give me name and phone please.", <<>>), book)
        ELSE IF Len(argv) # 2 THEN RaiseIn("ValueError", TooManyValuesMsg, book)
        ELSE LET name == argv[1]
                 phone == argv[2]
                 found == find(book, name)
                 book1 == IF found = None THEN add_record(book, NewRecord(name)) ELSE book
                 record == IF found = None THEN NewRecord(name) ELSE found
                 message == IF found = None THEN ContactAddedMsg ELSE ContactUpdatedMsg
             IN  IF phone # <<>>
                 THEN LET r == add_phone(record, phone)
                      IN  IF r.raised THEN RaiseIn(r.exc, r.msg, book1)
                          ELSE Return(message, Mutated(book1, name, r.record))
                 ELSE Return(message, book1))

add_birthday(argv, book) ==
    input_error(
        IF Len(argv) < 2 THEN Return(Msg("Give me name and birthday please.", <<>>), book)
        ELSE IF Len(argv) # 2 THEN RaiseIn("ValueError", TooManyValuesMsg, book)
        ELSE LET name == argv[1]
                 birthday == argv[2]
                 record == find(book, name)
             IN  IF record # None
                 THEN LET r == add_birthday_to(record, birthday)
                      IN  IF r.raised THEN RaiseIn(r.exc, r.msg, book)
                          ELSE Return(Msg(BirthdayAddedFmt, <<name, birthday>>),
                                      Mutated(book, name, r.record))
                 ELSE Return(ContactNotFoundMsg, book))

show_birthday(argv, book) ==
    input_error(
        IF Len(argv) < 1 THEN Return(Msg("Give me name please.", <<>>), book)
        ELSE LET name == argv[1]
                 record == find(book, name)
             IN  IF record # None /\ record.birthday # None
                 THEN Return(Msg("Birthday for '{name}': {birthday}.",
                                 <<name, Strftime(record.birthday)>>), book)
                 ELSE Return(Msg("Birthday not found or contact not found.", <<>>), book))

NoUpcomingMsg == Msg("No upcoming birthdays.", <<>>)

\* The lines of the records, one str(record) each
RecordLines(records) ==
    Msg("{records}", [i \in 1..Len(records) |-> RecordStr(records[i])])

birthdays(argv, book, now) ==
    input_error(
        LET got == get_upcoming_birthdays(book, DefaultDays, now)
        IN  IF got.raised THEN RaiseIn(got.exc, got.msg, book)
            ELSE IF got.value # <<>> THEN Return(RecordLines(got.value), book)
            ELSE Return(NoUpcomingMsg, book))

-----------------------------------------------------------------------------
(* parse_input *)

\* text.lstrip()
RECURSIVE LStrip(_)
LStrip(t) == IF t # <<>> /\ IsSpace(Head(t)) THEN LStrip(Tail(t)) ELSE t

\* text.rstrip()
RECURSIVE RStrip(_)
RStrip(t) ==
    IF t # <<>> /\ IsSpace(t[Len(t)]) THEN RStrip(SubSeq(t, 1, Len(t) - 1)) ELSE t

\* text.strip()
Strip(t) == RStrip(LStrip(t))

\* The number of characters of t before its first whitespace
RECURSIVE WordLen(_)
WordLen(t) == IF t = <<>> \/ IsSpace(Head(t)) THEN 0 ELSE 1 + WordLen(Tail(t))

\* text.split(maxsplit=1)
SplitOnce(t) ==
    LET s == LStrip(t)
        n == WordLen(s)
        rest == LStrip(SubSeq(s, n + 1, Len(s)))
    IN  IF s = <<>> THEN <<>>
        ELSE IF rest = <<>> THEN <<SubSeq(s, 1, n)>>
        ELSE <<SubSeq(s, 1, n), rest>>

\* text.split()
RECURSIVE Split(_)
Split(t) ==
    LET s == LStrip(t)
        n == WordLen(s)
    IN  IF s = <<>> THEN <<>>
        ELSE <<SubSeq(s, 1, n)>> \o Split(SubSeq(s, n + 1, Len(s)))

\* parse_input(command_input): the tuple (command, args), or what input_error
\* returns in place of an IndexError
parse_input(command_input) ==
    input_error(
        LET parts == SplitOnce(command_input)
        IN  IF Len(parts) = 0 THEN RaiseIn("IndexError", Msg("", <<>>), None)
            ELSE Return([items |-> <<parts[1],
                                     IF Len(parts) > 1 THEN Split(parts[2]) ELSE <<>> >>],
                        None))

\* len("Enter the argument for the command.")
EnterArgumentLen == 35

\* The number of items that unpacking the value v iterates over: the items of a
\* tuple, the characters of a str
IterLen(v) == IF "items" \in DOMAIN v THEN Len(v.items) ELSE EnterArgumentLen

-----------------------------------------------------------------------------
(* save_data and load_data: pickle of the whole book *)

\* What pickle writes for a datetime or None
DumpDate(b) == IF b = None THEN <<>> ELSE <<b.year, b.month, b.day, b.sec>>

LoadDate(p) ==
    IF p = <<>> THEN None
    ELSE [year |-> p[1], month |-> p[2], day |-> p[3], sec |-> p[4]]

\* pickle.dump(book, f): the dict's items in order, each record's attributes
PickleDump(book) ==
    [pickle |->
        [i \in 1..Len(book) |->
            <<book[i].key, book[i].record.name, book[i].record.phones,
              DumpDate(book[i].record.birthday)>>]]

\* pickle.load(f)
PickleLoad(bytes) ==
    [i \in 1..Len(bytes.pickle) |->
        LET item == bytes.pickle[i]
        IN  [key |-> item[1],
             record |-> [name |-> item[2], phones |-> item[3],
                         birthday |-> LoadDate(item[4])]]]

\* save_data(book): the file afterwards
save_data(book) == PickleDump(book)

\* A load that reads no file
load_data_new(f) == EmptyBook

\* load_data(): FileNotFoundError gives a new AddressBook
load_data(f) == IF f = NoFile THEN EmptyBook ELSE PickleLoad(f)

-----------------------------------------------------------------------------
(* main: the read of a line, then one action for each branch of the loop *)

NoInput == <<"<", "n", "o", "n", "e", ">">>
NoOutput == Msg("", <<>>)

W_close == <<"c", "l", "o", "s", "e">>
W_exit == <<"e", "x", "i", "t">>
W_hello == <<"h", "e", "l", "l", "o">>
W_add == <<"a", "d", "d">>
W_change == <<"c", "h", "a", "n", "g", "e">>
W_phone == <<"p", "h", "o", "n", "e">>
W_all == <<"a", "l", "l">>
W_add_birthday == <<"a", "d", "d", "-", "b", "i", "r", "t", "h", "d", "a", "y">>
W_show_birthday == <<"s", "h", "o", "w", "-", "b", "i", "r", "t", "h", "d", "a", "y">>
W_birthdays == <<"b", "i", "r", "t", "h", "d", "a", "y", "s">>
W_delete == <<"d", "e", "l", "e", "t", "e">>

KnownCommands ==
    {W_close, W_exit, W_hello, W_add, W_change, W_phone, W_all, W_add_birthday,
     W_show_birthday, W_birthdays, W_delete}

\* A step that asks for no birthdays
NoQuery == today' = None /\ upcoming' = None

NoSave == UNCHANGED <<file, saves, closedBook>>

NoLine == user_input' = NoInput /\ command' = <<>> /\ args' = <<>>

\* The process starts: load_data, then the welcome
Start ==
    /\ status # "running"
    /\ status' = "running"
    /\ pc' = "input"
    /\ data' = load_data(file)
    /\ out' = Msg("Welcome to the assistant bot!", <<>>)
    /\ NoLine
    /\ saves' = 0
    /\ NoQuery
    /\ UNCHANGED <<file, closedBook>>

\* input() raises EOFError or KeyboardInterrupt: the process ends, nothing is saved.
\* A process that has ended holds no book: data is the empty book until the next
\* start loads one.
Interrupt ==
    /\ status = "running"
    /\ pc = "input"
    /\ status' = "killed"
    /\ data' = EmptyBook
    /\ out' = Msg("Traceback: {exception}", <<"EOFError">>)
    /\ NoLine
    /\ NoQuery
    /\ NoSave
    /\ UNCHANGED pc

\* user_input = input("Enter a command: ").strip()
\* command, args = parse_input(user_input)
ReadLine(lines) ==
    \E line \in lines :
        LET parsed == parse_input(Strip(line)).ret
        IN  /\ status = "running"
            /\ pc = "input"
            /\ IterLen(parsed) = 2
            /\ user_input' = Strip(line)
            /\ command' = parsed.items[1]
            /\ args' = parsed.items[2]
            /\ pc' = "dispatch"
            /\ out' = Msg("Enter a command: ", <<>>)
            /\ NoQuery
            /\ NoSave
            /\ UNCHANGED <<status, data>>

\* The same two statements when the unpacking of what parse_input returned raises
\* ValueError, which nothing catches: the process ends with a traceback
UnpackError(lines) ==
    \E line \in lines :
        LET parsed == parse_input(Strip(line)).ret
        IN  /\ status = "running"
            /\ pc = "input"
            /\ IterLen(parsed) # 2
            /\ user_input' = Strip(line)
            /\ command' = <<>>
            /\ args' = <<>>
            /\ status' = "crashed"
            /\ data' = EmptyBook
            /\ out' = Msg("Traceback: {exception}", <<"ValueError">>)
            /\ NoQuery
            /\ NoSave
            /\ UNCHANGED pc

\* main takes the branch of a command in cmds and goes back to read a line
Branch(cmds) ==
    /\ status = "running"
    /\ pc = "dispatch"
    /\ command \in cmds
    /\ pc' = "input"
    /\ UNCHANGED <<user_input, command, args>>

CloseCmd ==
    /\ Branch({W_close, W_exit})
    /\ out' = Msg("Good bye!", <<>>)
    /\ file' = save_data(data)
    /\ saves' = saves + 1
    /\ closedBook' = [book |-> data]
    /\ status' = "closed"
    /\ data' = EmptyBook
    /\ NoQuery

HelloCmd ==
    /\ Branch({W_hello})
    /\ out' = Msg("How can I help you?", <<>>)
    /\ NoQuery
    /\ NoSave
    /\ UNCHANGED <<status, data>>

MaxPhones == 2

\* The bound of the model: no record holds more than MaxPhones phones
WithinBound(book) == \A i \in 1..Len(book) : Len(book[i].record.phones) <= MaxPhones

AddCmd ==
    /\ Branch({W_add})
    /\ LET r == add_contact(args, data)
       IN  /\ WithinBound(r.data)
           /\ out' = r.ret
           /\ data' = r.data
    /\ NoQuery
    /\ NoSave
    /\ UNCHANGED status

ChangeCmd ==
    /\ Branch({W_change})
    /\ IF Len(args) = 3
       THEN LET name == args[1]
                old_phone == args[2]
                new_phone == args[3]
                record == find(data, name)
            IN  IF record # None
                THEN LET r == edit_phone(record, old_phone, new_phone)
                     IN  /\ data' = Mutated(data, name, r.record)
                         /\ IF r.raised THEN out' = r.msg
                            ELSE out' = Msg(UpdatedFmt, <<name, old_phone, new_phone>>)
                ELSE out' = ContactNotFoundMsg /\ data' = data
       ELSE /\ out' = Msg("Give me name, old phone, and new phone please.", <<>>)
            /\ data' = data
    /\ NoQuery
    /\ NoSave
    /\ UNCHANGED status

PhoneCmd ==
    /\ Branch({W_phone})
    /\ IF Len(args) = 1
       THEN LET record == find(data, args[1])
            IN  IF record # None
                THEN out' = Msg("Phone numbers for '{name}': {phones}",
                                <<args[1], Join(<<";", " ">>, record.phones)>>)
                ELSE out' = ContactNotFoundMsg
       ELSE out' = Msg("Give me name please.", <<>>)
    /\ NoQuery
    /\ NoSave
    /\ UNCHANGED <<status, data>>

AllCmd ==
    /\ Branch({W_all})
    /\ IF data # <<>>
       THEN out' = RecordLines([i \in 1..Len(data) |-> data[i].record])
       ELSE out' = Msg("No contacts found.", <<>>)
    /\ NoQuery
    /\ NoSave
    /\ UNCHANGED <<status, data>>

AddBirthdayCmd ==
    /\ Branch({W_add_birthday})
    /\ LET r == add_birthday(args, data)
       IN  out' = r.ret /\ data' = r.data
    /\ NoQuery
    /\ NoSave
    /\ UNCHANGED status

ShowBirthdayCmd ==
    /\ Branch({W_show_birthday})
    /\ out' = show_birthday(args, data).ret
    /\ NoQuery
    /\ NoSave
    /\ UNCHANGED <<status, data>>

\* clock: the values datetime.today() can return
BirthdaysCmd(clock) ==
    \E now \in clock :
        /\ Branch({W_birthdays})
        /\ today' = now
        /\ upcoming' = get_upcoming_birthdays(data, DefaultDays, now)
        /\ out' = birthdays(args, data, now).ret
        /\ NoSave
        /\ UNCHANGED <<status, data>>

DeleteCmd ==
    /\ Branch({W_delete})
    /\ IF Len(args) = 1
       THEN /\ data' = delete(data, args[1])
            /\ out' = Msg("Contact '{name}' deleted.", <<args[1]>>)
       ELSE /\ data' = data
            /\ out' = Msg("Give me name please.", <<>>)
    /\ NoQuery
    /\ NoSave
    /\ UNCHANGED status

InvalidCmd ==
    /\ status = "running"
    /\ pc = "dispatch"
    /\ command \notin KnownCommands
    /\ pc' = "input"
    /\ out' = Msg("Invalid command. Please try again.", <<>>)
    /\ NoQuery
    /\ NoSave
    /\ UNCHANGED <<status, data, user_input, command, args>>

-----------------------------------------------------------------------------
(* Calls made on the book between two commands, without the loop *)

Call ==
    /\ status = "running"
    /\ pc = "input"
    /\ NoLine
    /\ out' = NoOutput
    /\ NoQuery
    /\ NoSave
    /\ UNCHANGED <<status, pc>>

\* book.add_record(Record(name))
AddRecordCall(names) ==
    \E name \in names :
        /\ Call
        /\ data' = add_record(data, NewRecord(name))

\* book.delete(name)
DeleteCall(names) ==
    \E name \in names :
        /\ Call
        /\ data' = delete(data, name)

\* book.find(name).remove_phone(number)
RemovePhoneCall(names, numbers) ==
    \E name \in names, number \in numbers :
        /\ Call
        /\ find(data, name) # None
        /\ data' = Mutated(data, name, remove_phone(find(data, name), number))

-----------------------------------------------------------------------------
(* The inputs of the model *)

Ann == <<"A", "n", "n">>
Bob == <<"B", "o", "b">>
Names == {Ann, Bob}

PhoneA == AsciiDigits                                 \* 0123456789
PhoneU == ArabicIndicDigits                           \* ten Arabic-Indic digits
Phone9 == SubSeq(AsciiDigits, 1, 9)                   \* 012345678
PhoneX == SubSeq(AsciiDigits, 1, 9) \o <<"x">>        \* 012345678x
Phone11 == AsciiDigits \o <<"0">>                     \* 01234567890

Date0106 == <<"0", "1", ".", "0", "6", ".", "1", "9", "9", "0">>
Date0806 == <<"0", "8", ".", "0", "6", ".", "1", "9", "9", "0">>
Date0906 == <<"0", "9", ".", "0", "6", ".", "1", "9", "9", "0">>
Date2902 == <<"2", "9", ".", "0", "2", ".", "2", "0", "0", "0">>
Date2802 == <<"2", "8", ".", "0", "2", ".", "1", "9", "9", "0">>
DateShort == <<"1", ".", "6", ".", "1", "9", "9", "0">>
DateNone == <<"3", "1", ".", "0", "2", ".", "2", "0", "2", "4">>
DateDash == <<"0", "1", "-", "0", "6", "-", "1", "9", "9", "0">>

\* The line that holds the words, one blank between them
Line(words) == Join(<<" ">>, words)

\* datetime.today(): noon and midnight of 1 June 2024, noon of 25 February 2023
Noon0106 == [year |-> 2024, month |-> 6, day |-> 1, sec |-> 43200]
Midnight0106 == [year |-> 2024, month |-> 6, day |-> 1, sec |-> 0]
Noon2502 == [year |-> 2023, month |-> 2, day |-> 25, sec |-> 43200]
Clock == {Noon0106, Midnight0106, Noon2502}

\* Lines of a whole session: every branch of main, few values
SessionLines ==
    {Line(<<W_add, Ann, PhoneA>>), Line(<<W_add, Bob, Phone9>>),
     Line(<<W_change, Ann, PhoneA, PhoneA>>), Line(<<W_phone, Ann>>),
     Line(<<W_add_birthday, Ann, Date0106>>), Line(<<W_show_birthday, Ann>>),
     Line(<<W_delete, Ann>>), Line(<<W_delete>>), Line(<<W_all>>),
     Line(<<W_birthdays>>), Line(<<W_hello>>), Line(<<W_close>>),
     <<" ">> \o Line(<<W_exit>>) \o <<" ">>, Line(<<W_add>>), Line(<<Ann>>),
     <<>>, <<" ", " ">>}

-----------------------------------------------------------------------------
(* The program: sessions of main over the file *)

Init ==
    /\ status = "stopped"
    /\ pc = "input"
    /\ data = EmptyBook
    /\ file = NoFile
    /\ user_input = NoInput
    /\ command = <<>>
    /\ args = <<>>
    /\ out = NoOutput
    /\ today = None
    /\ upcoming = None
    /\ saves = 0
    /\ closedBook = NeverClosed

Next ==
    \/ Start
    \/ Interrupt
    \/ ReadLine(SessionLines)
    \/ UnpackError(SessionLines)
    \/ CloseCmd
    \/ HelloCmd
    \/ AddCmd
    \/ ChangeCmd
    \/ PhoneCmd
    \/ AllCmd
    \/ AddBirthdayCmd
    \/ ShowBirthdayCmd
    \/ BirthdaysCmd({Noon0106})
    \/ DeleteCmd
    \/ InvalidCmd

Spec == Init /\ [][Next]_vars

\* The state a first session is in once it has started with no file
InitRunning ==
    /\ status = "running"
    /\ pc = "input"
    /\ data = load_data(NoFile)
    /\ file = NoFile
    /\ user_input = NoInput
    /\ command = <<>>
    /\ args = <<>>
    /\ out = Msg("Welcome to the assistant bot!", <<>>)
    /\ today = None
    /\ upcoming = None
    /\ saves = 0
    /\ closedBook = NeverClosed

-----------------------------------------------------------------------------
(* One session over the phones: the commands that change the book, with the *)
(* calls a caller can make on the book directly                             *)

BookLines ==
    {Line(<<W_add, n, p>>) : n \in Names, p \in {PhoneA, PhoneU, Phone9, PhoneX}}
    \cup {Line(<<W_change, n, o, w>>) :
            n \in Names, o \in {PhoneA, PhoneU}, w \in {PhoneA, PhoneU, Phone11}}
    \cup {Line(<<W_change, Ann, Phone9, w>>) : w \in {PhoneA, PhoneX}}
    \cup {Line(<<W_delete, n>>) : n \in Names}
    \cup {Line(<<W_add_birthday, n, Date0106>>) : n \in Names}
    \cup {Line(<<W_add, Ann>>), Line(<<W_add, Ann, PhoneA, PhoneA>>),
          Line(<<W_change, Ann, PhoneA>>)}

NextBook ==
    \/ ReadLine(BookLines)
    \/ AddCmd
    \/ ChangeCmd
    \/ AddBirthdayCmd
    \/ DeleteCmd
    \/ AddRecordCall(Names)
    \/ DeleteCall(Names)
    \/ RemovePhoneCall(Names, {PhoneA, PhoneU})

SpecBook == InitRunning /\ [][NextBook]_vars

-----------------------------------------------------------------------------
(* One session over the birthdays *)

BirthdayTexts ==
    {Date0106, Date0806, Date0906, Date2902, Date2802, DateShort, DateNone, DateDash}

BirthdayLines ==
    {Line(<<W_add, n, PhoneA>>) : n \in Names}
    \cup {Line(<<W_add_birthday, n, t>>) : n \in Names, t \in BirthdayTexts}
    \cup {Line(<<W_show_birthday, n>>) : n \in Names}
    \cup {Line(<<W_birthdays>>)}

NextBirthday ==
    \/ ReadLine(BirthdayLines)
    \/ AddCmd
    \/ AddBirthdayCmd
    \/ ShowBirthdayCmd
    \/ BirthdaysCmd(Clock)

SpecBirthday == InitRunning /\ [][NextBirthday]_vars

-----------------------------------------------------------------------------
(* Properties *)

\* The records of the book
Records(book) == {book[i].record : i \in 1..Len(book)}

\* The step is main's branch for the command cmd
BranchStep(cmd) == status = "running" /\ pc = "dispatch" /\ command = cmd /\ pc' = "input"

\* C1: every phone stored in every record of the directory is a string of exactly
\* 10 ASCII decimal digits (0-9) and nothing else.
C1_StoredPhonesAsciiDigits ==
    \A r \in Records(data) : \A k \in 1..Len(r.phones) :
        /\ Len(r.phones[k]) = 10
        /\ \A i \in 1..Len(r.phones[k]) : r.phones[k][i] \in Range(AsciiDigits)

\* The number of the day y-m-d, counted from 1 January of year 1
C2_DayNumber(y, m, d) ==
    LET before == <<0, 31, 59, 90, 120, 151, 181, 212, 243, 273, 304, 334>>
        leap == (y % 4 = 0) /\ ((y % 100 # 0) \/ (y % 400 = 0))
    IN  365 * (y - 1) + ((y - 1) \div 4) - ((y - 1) \div 100) + ((y - 1) \div 400)
        + before[m] + (IF leap /\ m > 2 THEN 1 ELSE 0) + d

\* The birthday b, projected onto the year of the reference date ref, lies in the
\* window of whole days [ref, ref + days], both ends included
C2_InWindow(b, ref, days) ==
    LET r == C2_DayNumber(ref.year, ref.month, ref.day)
        p == C2_DayNumber(ref.year, b.month, b.day)
    IN  r <= p /\ p <= r + days

\* C2: upcomingBirthdays returns exactly the records that have a birthday set and
\* whose birthday, projected onto the reference date's year, satisfies
\* referenceDate <= projectedBirthday <= referenceDate + windowDays, both ends
\* inclusive, the window measured in whole days: a birthday on the reference day
\* itself is returned.
C2_UpcomingIsTheWindow ==
    (upcoming # None /\ ~upcoming.raised) =>
        Range(upcoming.value) =
            {r \in Records(data) :
                r.birthday # None /\ C2_InWindow(r.birthday, today, DefaultDays)}

\* C3: a failing editPhone(old, new) leaves the record's phone list unchanged: when
\* old is not in the list the change command prints 'Old phone number not found.'
\* whether or not new is valid, when old is in the list and makePhone rejects new
\* it prints the phone-validation error, and in both cases the book is as before.
C3_FailedEditKeepsPhones ==
    [][(BranchStep(W_change) /\ Len(args) = 3 /\ find(data, args[1]) # None) =>
        LET phones == find(data, args[1]).phones
            present == \E k \in 1..Len(phones) : phones[k] = args[2]
        IN  /\ ~present => (out' = OldPhoneNotFoundMsg /\ data' = data)
            /\ (present /\ Phone(args[3]).raised) =>
                    (out' = InvalidPhoneMsg /\ data' = data)
            /\ out'.fmt # UpdatedFmt => data' = data]_vars

\* C3's case: the change command has just failed on a new phone that is not valid,
\* the old phone being in the list of the record, which holds two phones
C3_Witness ==
    /\ pc = "input" /\ command = W_change /\ Len(args) = 3
    /\ out = InvalidPhoneMsg
    /\ find(data, args[1]) # None
    /\ Len(find(data, args[1]).phones) = 2
    /\ \E k \in 1..2 : find(data, args[1]).phones[k] = args[2]

\* C4: for every text that setBirthday accepts, rendering the stored birthday back
\* in DD.MM.YYYY form reproduces the input text exactly.
C4_RenderReproducesInput ==
    (pc = "input" /\ command = W_add_birthday /\ out.fmt = BirthdayAddedFmt) =>
        Strftime(find(data, args[1]).birthday) = args[2]

\* C5: in every reachable state of the directory each entry's key equals the name
\* value of the record stored under it, and there is at most one entry per name.
C5_KeysAreNames ==
    /\ \A i \in 1..Len(data) : data[i].key = data[i].record.name
    /\ \A i, j \in 1..Len(data) : data[i].key = data[j].key => i = j

\* C5's case: two records, one put over an older one of its name by a direct
\* add_record after the other was added
C5_Witness ==
    /\ Len(data) = 2
    /\ data[1].record.phones = <<>>
    /\ data[2].record.phones # <<>>
    /\ data[2].record.birthday # None
    /\ out = NoOutput

\* The book a session loads: the book of the last close/exit, empty before any
C6_Persisted == IF closedBook = NeverClosed THEN EmptyBook ELSE closedBook.book

\* C6: the directory loaded at the start of a session equals the directory as it
\* stood when the most recent earlier session ended through close/exit, and is
\* empty when there is no persisted state; save runs once per session and only on
\* close/exit, so what a session that ends any other way changed is not loaded.
C6_LoadedIsLastClosed ==
    /\ load_data(file) = C6_Persisted
    /\ (status = "running" /\ out = Msg("Welcome to the assistant bot!", <<>>)) =>
            data = C6_Persisted
    /\ (file = NoFile) <=> (closedBook = NeverClosed)
    /\ saves = (IF status = "closed" THEN 1 ELSE 0)

\* C6's case: a session has just started and loaded a record with a phone and a
\* birthday, which an earlier session saved at its close
C6_Witness ==
    /\ status = "running"
    /\ out = Msg("Welcome to the assistant bot!", <<>>)
    /\ closedBook # NeverClosed
    /\ data # <<>>
    /\ data[1].record.phones # <<>>
    /\ data[1].record.birthday # None

\* C7: a successful editPhone(old, new) replaces exactly the first entry equal to
\* old with new at the same position and leaves the list length and every other
\* entry, later entries equal to old included, unchanged; the record's name and
\* birthday, and the other records, are unchanged.
C7_EditReplacesFirstOnly ==
    [][(BranchStep(W_change) /\ out'.fmt = UpdatedFmt) =>
        LET before == find(data, args[1])
            after == find(data', args[1])
            first == CHOOSE k \in 1..Len(before.phones) :
                        /\ before.phones[k] = args[2]
                        /\ \A j \in 1..(k - 1) : before.phones[j] # args[2]
        IN  /\ \E k \in 1..Len(before.phones) : before.phones[k] = args[2]
            /\ Len(after.phones) = Len(before.phones)
            /\ after.phones[first] = args[3]
            /\ \A k \in 1..Len(before.phones) :
                    k # first => after.phones[k] = before.phones[k]
            /\ after.name = before.name
            /\ after.birthday = before.birthday
            /\ Len(data') = Len(data)
            /\ \A i \in 1..Len(data) :
                    /\ data'[i].key = data[i].key
                    /\ data[i].key # args[1] => data'[i] = data[i]]_vars

\* C7's case: the change has just replaced the first of two equal phones by another
\* phone, and the second is still the old one
C7_Witness ==
    /\ pc = "input" /\ command = W_change /\ out.fmt = UpdatedFmt
    /\ args[2] # args[3]
    /\ find(data, args[1]).phones = <<args[3], args[2]>>
    /\ find(data, args[1]).birthday # None

\* The book holds a record whose birthday is 29 February
C8_HasLeapDay(book) ==
    \E r \in Records(book) :
        r.birthday # None /\ r.birthday.month = 2 /\ r.birthday.day = 29

\* The birthdays command has just run on a book with a 29 February birthday, the
\* year of the reference date not being a leap year
C8_Case ==
    /\ pc = "input" /\ command = W_birthdays /\ today # None
    /\ ~((today.year % 4 = 0) /\ ((today.year % 100 # 0) \/ (today.year % 400 = 0)))
    /\ C8_HasLeapDay(data)

\* C8: when the directory holds a record whose birthday is 29 February and the
\* reference date's year is not a leap year, upcomingBirthdays raises an error
\* instead of returning a result, whatever the other records are, and the
\* birthdays command returns the error text and no record.
C8_LeapDayRaises ==
    C8_Case => (upcoming.raised /\ upcoming.exc = "ValueError" /\ out = DayOutOfRangeMsg)

\* C8's case, another record having its birthday inside the window
C8_Witness ==
    /\ C8_Case
    /\ \E r \in Records(data) :
            r.birthday # None /\ r.birthday.day # 29
            /\ C2_InWindow(r.birthday, today, DefaultDays)

\* C9: an add command whose phone fails validation returns the validation error
\* text and leaves the directory unchanged, both when the name already exists and
\* when it does not: no record is created for that name.
C9_FailedAddKeepsBook ==
    [][(BranchStep(W_add) /\ out' = InvalidPhoneMsg) => data' = data]_vars

\* C10: the interactive loop ends only through the close or exit command (or the
\* end of the input): every other line read, an empty one included, yields a
\* message and the loop goes on with the directory intact.
C10_OnlyCloseEndsLoop ==
    [][(status = "running" /\ status' # "running") =>
        (status' = "killed" \/ command \in {W_close, W_exit})]_vars

====
